---- MODULE Spec2Model ----
(***************************************************************************)
(* Model of app.py: the /approximate request handler of the random-feature *)
(* ridge-regression demo, with the helpers it calls.                       *)
(*                                                                         *)
(* Arrays are modelled by what determines their content: a shape, the      *)
(* distribution they were drawn from and the position of the generator at  *)
(* the draw (a seeded generator is a function of its seed and of how many  *)
(* variates it has produced), or the operands they were computed from.     *)
(***************************************************************************)
EXTENDS Integers, Sequences, FiniteSets, TLC

VARIABLES
    pc,          \* position of the handler: "idle" between requests
    req,         \* request arguments, lines 98-103
    layer_sizes, \* result of parse_layers, line 108
    rng,         \* np.random.default_rng(seed), line 116
    y_train,     \* line 119-121
    params,      \* line 123
    Phi_train,   \* line 124
    w,           \* line 125
    y_true,      \* line 128
    Phi_grid,    \* line 129
    y_pred,      \* line 130
    response,    \* what jsonify(...) returns to the caller
    calls,       \* history: numeric functions called while serving req
    np_global,   \* numpy's process-wide generator (np.random.*)
    saved        \* history: an earlier request and its response

vars == <<pc, req, layer_sizes, rng, y_train, params, Phi_train, w, y_true,
          Phi_grid, y_pred, response, calls, np_global, saved>>

locals == <<layer_sizes, rng, y_train, params, Phi_train, w, y_true,
            Phi_grid, y_pred>>

\* An unbound local is None; a bound one is Some(value).
None == <<>>
Some(v) == <<v>>

Max(a, b) == IF a >= b THEN a ELSE b
Min(a, b) == IF a <= b THEN a ELSE b

----------------------------------------------------------------------------
\* Program constants.

N_TRAIN == 512
N_GRID == 500
MAX_LAYERS == 10
MIN_WIDTH == 1
MAX_WIDTH == 2048
DEFAULT_WIDTH == 64

TARGETS == {"sine", "abs", "bump", "cubic", "square"}
ACTIVATIONS == {"tanh", "relu", "sigmoid"}

----------------------------------------------------------------------------
\* Bounds of the model.

MaxShort == 2     \* every list of at most MaxShort tokens is a layer string
MaxTokens == 11   \* longest list of tokens of a layer string
MaxLam == 1       \* lam ranges over 0..MaxLam
MaxSeed == 1      \* seed ranges over 0..MaxSeed
MaxNoise == 1     \* noise ranges over 0..MaxNoise

----------------------------------------------------------------------------
\* Strings are sequences of one-character strings.

Digits == {"0", "1", "2", "3", "4", "5", "6", "7", "8", "9"}
DigitVal(c) ==
    CASE c = "0" -> 0 [] c = "1" -> 1 [] c = "2" -> 2 [] c = "3" -> 3
      [] c = "4" -> 4 [] c = "5" -> 5 [] c = "6" -> 6 [] c = "7" -> 7
      [] c = "8" -> 8 [] c = "9" -> 9

\* str.split(","): the pieces between commas, empty pieces kept.
RECURSIVE SplitFrom(_, _, _, _)
SplitFrom(s, i, cur, acc) ==
    IF i > Len(s) THEN Append(acc, cur)
    ELSE IF s[i] = "," THEN SplitFrom(s, i + 1, <<>>, Append(acc, cur))
    ELSE SplitFrom(s, i + 1, Append(cur, s[i]), acc)
split(s) == SplitFrom(s, 1, <<>>, <<>>)

\* str.strip(): leading and trailing white space removed.
RECURSIVE lstrip(_)
lstrip(t) == IF t # <<>> /\ Head(t) = " " THEN lstrip(Tail(t)) ELSE t
RECURSIVE rstrip(_)
rstrip(t) ==
    IF t # <<>> /\ t[Len(t)] = " " THEN rstrip(SubSeq(t, 1, Len(t) - 1)) ELSE t
strip(t) == rstrip(lstrip(t))

\* int(p) of a stripped token: an optional sign, then one or more decimal
\* digits; anything else raises ValueError.
Unsigned(t) == IF t # <<>> /\ Head(t) \in {"-", "+"} THEN Tail(t) ELSE t
IsIntLiteral(t) ==
    /\ Unsigned(t) # <<>>
    /\ \A i \in 1..Len(Unsigned(t)) : Unsigned(t)[i] \in Digits
RECURSIVE Magnitude(_, _)
Magnitude(ds, acc) ==
    IF ds = <<>> THEN acc ELSE Magnitude(Tail(ds), 10 * acc + DigitVal(Head(ds)))
int(t) ==
    IF Head(t) = "-" THEN 0 - Magnitude(Unsigned(t), 0)
    ELSE Magnitude(Unsigned(t), 0)

\* parts = [p.strip() for p in s.split(",") if p.strip()]
RECURSIVE StripNonEmpty(_)
StripNonEmpty(ps) ==
    IF ps = <<>> THEN <<>>
    ELSE IF strip(Head(ps)) = <<>> THEN StripNonEmpty(Tail(ps))
    ELSE <<strip(Head(ps))>> \o StripNonEmpty(Tail(ps))
Parts(s) == StripNonEmpty(split(s))

\* The clamp without its lower bound: min(2048, int(p)).
ClampWidthNoFloor(n) == Min(MAX_WIDTH, n)

\* w = max(1, min(2048, int(p)))
ClampWidth(n) == Max(MIN_WIDTH, Min(MAX_WIDTH, n))

\* parse_layers answering None where it answers [64].
parse_layers_no_default(s) ==
    LET parts == Parts(s)
        kept == SubSeq(parts, 1, Min(MAX_LAYERS, Len(parts)))
    IN  IF parts = <<>> THEN None
        ELSE IF \E i \in 1..Len(kept) : ~IsIntLiteral(kept[i]) THEN None
        ELSE Some([i \in 1..Len(kept) |-> ClampWidth(int(kept[i]))])

\* parse_layers: None stands for Python's None.
parse_layers(s) ==
    LET parts == Parts(s)
        kept == SubSeq(parts, 1, Min(MAX_LAYERS, Len(parts)))
    IN  IF parts = <<>> THEN Some(<<DEFAULT_WIDTH>>)
        ELSE IF \E i \in 1..Len(kept) : ~IsIntLiteral(kept[i]) THEN None
        ELSE Some([i \in 1..Len(kept) |-> ClampWidth(int(kept[i]))])

----------------------------------------------------------------------------
\* Catalogs: the display name of each key (TARGETS[k][0], ACTIVATIONS[k][0]).

TargetName(k) ==
    CASE k = "sine" -> "sin(2pix)" [] k = "abs" -> "|x - 0.5|"
      [] k = "bump" -> "Gaussian bump" [] k = "cubic" -> "(2x-1)^3"
      [] k = "square" -> "square wave (discontinuous)"
ActName(k) ==
    CASE k = "tanh" -> "tanh" [] k = "relu" -> "ReLU" [] k = "sigmoid" -> "sigmoid"

----------------------------------------------------------------------------
\* The random generator: its seed and the number of variates produced so far.

default_rng(seed) == [seed |-> seed, pos |-> 0]

RECURSIVE Size(_)
Size(shape) == IF shape = <<>> THEN 1 ELSE Head(shape) * Size(Tail(shape))

\* rng.normal(0, scale, size) and rng.uniform(lo, hi, size): the array drawn.
\* scaleSq is the square of the scale as a fraction <<num, den>>; the bounds
\* of the uniform are coef * unit.
normal(g, scaleSq, shape) ==
    [dist |-> "normal", scaleSq |-> scaleSq, shape |-> shape,
     seed |-> g.seed, pos |-> g.pos]
uniform(g, coef, unit, shape) ==
    [dist |-> "uniform", low |-> 0 - coef, high |-> coef, unit |-> unit,
     shape |-> shape, seed |-> g.seed, pos |-> g.pos]
advance(g, shape) == [g EXCEPT !.pos = @ + Size(shape)]

\* he_scale, squared: 2 / max(1, fan_in) for relu, 1 / max(1, fan_in) otherwise.
he_scale_swapped(fan_in, act_key) ==
    IF act_key = "relu" THEN <<1, Max(1, fan_in)>> ELSE <<2, Max(1, fan_in)>>
he_scale(fan_in, act_key) ==
    IF act_key = "relu" THEN <<2, Max(1, fan_in)>> ELSE <<1, Max(1, fan_in)>>

\* The loop of init_random_params from layer i on: acc is params so far,
\* g the generator, in_dim the width of the previous layer.
RECURSIVE InitLoop(_, _, _, _, _, _)
InitLoop(sizes, i, in_dim, act_key, g, acc) ==
    IF i > Len(sizes) THEN [params |-> acc, rng |-> g]
    ELSE LET width == sizes[i]
             W == normal(g, he_scale(in_dim, act_key), <<in_dim, width>>)
             g1 == advance(g, <<in_dim, width>>)
             b == uniform(g1, 1, "one", <<width>>)
             g2 == advance(g1, <<width>>)
         IN  InitLoop(sizes, i + 1, width, act_key, g2,
                      Append(acc, [W |-> W, b |-> b]))

\* The same loop without "in_dim = width".
RECURSIVE InitLoopStaleInDim(_, _, _, _, _, _)
InitLoopStaleInDim(sizes, i, in_dim, act_key, g, acc) ==
    IF i > Len(sizes) THEN [params |-> acc, rng |-> g]
    ELSE LET width == sizes[i]
             W == normal(g, he_scale(in_dim, act_key), <<in_dim, width>>)
             g1 == advance(g, <<in_dim, width>>)
             b == uniform(g1, 1, "one", <<width>>)
             g2 == advance(g1, <<width>>)
         IN  InitLoopStaleInDim(sizes, i + 1, in_dim, act_key, g2,
                                Append(acc, [W |-> W, b |-> b]))
init_random_params_stale(sizes, act_key, g) ==
    InitLoopStaleInDim(sizes, 1, 1, act_key, g, <<>>)

\* init_random_params: the parameters and the generator after the draws.
init_random_params(sizes, act_key, g) == InitLoop(sizes, 1, 1, act_key, g, <<>>)

\* The names of the generator calls init_random_params makes.
RECURSIVE DrawNames(_)
DrawNames(n) == IF n = 0 THEN <<>> ELSE <<"normal", "uniform">> \o DrawNames(n - 1)

----------------------------------------------------------------------------
\* Shapes. ShapeError stands for the ValueError numpy raises on a mismatch.

ShapeError == <<>>

\* (n x k) @ (k2 x m)
matmul(a, b) == IF a # ShapeError /\ a[2] = b[1] THEN <<a[1], b[2]>> ELSE ShapeError
\* (n x m) + (k,): broadcast along the rows
add_bias(a, k) ==
    IF a = ShapeError THEN ShapeError
    ELSE IF a[2] = k \/ k = 1 THEN a
    ELSE IF a[2] = 1 THEN <<a[1], k>>
    ELSE ShapeError

\* np.linspace(0.0, 1.0, n)
linspace(n) == [low |-> 0, high |-> 1, shape |-> <<n>>]
make_grid(n) == linspace(n)

\* f(x): the target evaluated elementwise
apply_target(key, x) == [f |-> key, x |-> x, shape |-> x.shape]

\* The loop of forward_features: the shape of H after layers i..
RECURSIVE ForwardShape(_, _, _)
ForwardShape(h, ps, i) ==
    IF i > Len(ps) \/ h = ShapeError THEN h
    ELSE ForwardShape(add_bias(matmul(h, ps[i].W.shape), ps[i].b.shape[1]),
                      ps, i + 1)

\* forward_features(x, params, act_fn): H = x.reshape(-1, 1), then the layers.
forward_features(x, ps, act) ==
    [shape |-> ForwardShape(<<x.shape[1], 1>>, ps, 1),
     x |-> x, params |-> ps, act |-> act]

\* np.concatenate([np.ones((N, 1)), Phi], axis=1)
augment(shape) == <<shape[1], shape[2] + 1>>

\* fit_ridge_closed_form: the weights solve (Phi_aug.T Phi_aug + lam I) w =
\* Phi_aug.T y; A is (W+1) x (W+1), b has W+1 entries when y has N.
fit_ridge_closed_form(Phi, y, lam) ==
    LET aug == augment(Phi.shape)
        A == matmul(<<aug[2], aug[1]>>, aug)
        b == IF aug[1] = y.shape[1] THEN <<aug[2]>> ELSE ShapeError
    IN  [shape |-> IF A # ShapeError /\ b # ShapeError /\ A[1] = b[1]
                   THEN <<A[2]>> ELSE ShapeError,
         Phi |-> Phi, y |-> y, lam |-> lam]

\* predict_with_weights: Phi_aug @ w
predict_with_weights(Phi, wv) ==
    LET aug == augment(Phi.shape)
    IN  [shape |-> IF wv.shape # ShapeError /\ aug[2] = wv.shape[1]
                   THEN <<aug[1]>> ELSE ShapeError,
         Phi |-> Phi, w |-> wv]

----------------------------------------------------------------------------
\* Requests. A layer string is the comma-join of a list of tokens.

Tokens ==
    { <<>>, <<" ">>, <<"0">>, <<"-", "3">>, <<" ", "6", "4">>,
      <<"2", "0", "4", "9">>, <<"a">> }
Filler == <<"8">>

RECURSIVE Join(_)
Join(ts) ==
    IF ts = <<>> THEN <<>>
    ELSE IF Len(ts) = 1 THEN Head(ts)
    ELSE Head(ts) \o <<",">> \o Join(Tail(ts))

ShortLists == UNION { [1..n -> Tokens] : n \in 0..MaxShort }
LongLists ==
    { [i \in 1..n |-> IF i = p THEN t ELSE Filler] :
        n \in MAX_LAYERS..MaxTokens, p \in 1..MaxTokens, t \in Tokens }
LayerStrings == { Join(ts) : ts \in ShortLists \cup LongLists }

Requests ==
    [target : {"square", "cosine"},
     activation : ACTIVATIONS \cup {"gelu"},
     layers : LayerStrings,
     lam : 0..MaxLam, seed : 0..MaxSeed, noise : 0..MaxNoise]

\* The requests of the specification that compares two calls.
PairRequests ==
    [target : {"sine", "cosine"},
     activation : {"relu", "gelu"},
     layers : {Join(<<Filler>>), Join(<<Filler, <<"a">>>>)},
     lam : 0..MaxLam, seed : 0..MaxSeed, noise : 0..MaxNoise]

----------------------------------------------------------------------------
\* Responses.

Error400(msg) == [status |-> 400, error |-> msg, body |-> None]
\* An exception that escapes the handler: Flask answers 500.
Error500(exc) == [status |-> 500, error |-> exc, body |-> None]
Ok200(body) == [status |-> 200, error |-> "", body |-> Some(body)]

ErrKeys == "Invalid target or activation"
ErrLayers == "Invalid layers format. Use comma-separated integers like 128,64,32"
ErrMaxLayers == "Max 10 layers allowed"

Respond(r) ==
    /\ pc' = "responded"
    /\ response' = r

----------------------------------------------------------------------------
\* The handler, one action per step of approximate().

Init ==
    /\ pc = "idle"
    /\ req = None
    /\ layer_sizes = None /\ rng = None /\ y_train = None /\ params = None
    /\ Phi_train = None /\ w = None /\ y_true = None /\ Phi_grid = None
    /\ y_pred = None
    /\ response = None
    /\ calls = <<>>
    /\ np_global = [seed |-> 0 - 1, pos |-> 0]
    /\ saved = None

\* lines 98-103: the request arguments are read.
Receive(R) ==
    /\ pc = "idle"
    /\ \E r \in R : req' = r
    /\ pc' = "keys"
    /\ UNCHANGED <<locals, response, calls, np_global, saved>>

\* lines 105-106, with one message per identifier.
CheckKeysDistinct ==
    /\ pc = "keys"
    /\ IF req.target \notin TARGETS THEN Respond(Error400("Invalid target"))
       ELSE IF req.activation \notin ACTIVATIONS
            THEN Respond(Error400("Invalid activation"))
       ELSE pc' = "parse" /\ UNCHANGED response
    /\ UNCHANGED <<req, locals, calls, np_global, saved>>

\* lines 105-106, with the generator of line 116 built first.
CheckKeysAfterRng ==
    /\ pc = "keys"
    /\ rng' = Some(default_rng(req.seed))
    /\ calls' = Append(calls, "default_rng")
    /\ IF req.target \notin TARGETS \/ req.activation \notin ACTIVATIONS
       THEN Respond(Error400(ErrKeys))
       ELSE pc' = "parse" /\ UNCHANGED response
    /\ UNCHANGED <<req, layer_sizes, y_train, params, Phi_train, w, y_true,
                   Phi_grid, y_pred, np_global, saved>>

\* lines 105-106
CheckKeys ==
    /\ pc = "keys"
    /\ IF req.target \notin TARGETS \/ req.activation \notin ACTIVATIONS
       THEN Respond(Error400(ErrKeys))
       ELSE pc' = "parse" /\ UNCHANGED response
    /\ UNCHANGED <<req, locals, calls, np_global, saved>>

\* lines 108-112
ParseLayers ==
    /\ pc = "parse"
    /\ layer_sizes' = parse_layers(req.layers)
    /\ IF layer_sizes' = None THEN Respond(Error400(ErrLayers))
       ELSE IF Len(layer_sizes'[1]) > MAX_LAYERS THEN Respond(Error400(ErrMaxLayers))
       ELSE pc' = "rng" /\ UNCHANGED response
    /\ UNCHANGED <<req, rng, y_train, params, Phi_train, w, y_true, Phi_grid,
                   y_pred, calls, np_global, saved>>

\* lines 114-116
MakeRng ==
    /\ pc = "rng"
    /\ rng' = Some(default_rng(req.seed))
    /\ calls' = Append(calls, "default_rng")
    /\ pc' = "labels"
    /\ UNCHANGED <<req, layer_sizes, y_train, params, Phi_train, w, y_true,
                   Phi_grid, y_pred, response, np_global, saved>>

\* lines 118-121: the labels, with noise drawn from rng when noise_std > 0.
TrainLabels ==
    /\ pc = "labels"
    /\ LET x_train == linspace(N_TRAIN)
           y == apply_target(req.target, x_train)
       IN  IF req.noise > 0
           THEN /\ y_train' = Some([y EXCEPT !.f =
                      <<@, "+", normal(rng[1], <<req.noise * req.noise, 1>>, y.shape)>>])
                /\ rng' = Some(advance(rng[1], y.shape))
                /\ calls' = calls \o <<"f", "normal">>
           ELSE /\ y_train' = Some([y EXCEPT !.f = <<@>>])
                /\ rng' = rng
                /\ calls' = Append(calls, "f")
    /\ pc' = "init"
    /\ UNCHANGED <<req, layer_sizes, params, Phi_train, w, y_true, Phi_grid,
                   y_pred, response, np_global, saved>>

\* line 123, drawing from numpy's process-wide generator instead of rng.
InitParamsGlobal ==
    /\ pc = "init"
    /\ LET r == init_random_params(layer_sizes[1], req.activation, np_global)
       IN  /\ params' = Some(r.params)
           /\ np_global' = r.rng
    /\ calls' = calls \o <<"init_random_params">> \o DrawNames(Len(layer_sizes[1]))
    /\ pc' = "phi_train"
    /\ UNCHANGED <<req, layer_sizes, rng, y_train, Phi_train, w, y_true,
                   Phi_grid, y_pred, response, saved>>

\* line 123
InitParams ==
    /\ pc = "init"
    /\ LET r == init_random_params(layer_sizes[1], req.activation, rng[1])
       IN  /\ params' = Some(r.params)
           /\ rng' = Some(r.rng)
    /\ calls' = calls \o <<"init_random_params">> \o DrawNames(Len(layer_sizes[1]))
    /\ pc' = "phi_train"
    /\ UNCHANGED <<req, layer_sizes, y_train, Phi_train, w, y_true, Phi_grid,
                   y_pred, response, np_global, saved>>

\* line 124
PhiTrain ==
    /\ pc = "phi_train"
    /\ LET Phi == forward_features(linspace(N_TRAIN), params[1], req.activation)
       IN  /\ Phi_train' = Some(Phi)
           /\ IF Phi.shape = ShapeError
              THEN Respond(Error500("ValueError"))
              ELSE pc' = "fit" /\ UNCHANGED response
    /\ calls' = Append(calls, "forward_features")
    /\ UNCHANGED <<req, layer_sizes, rng, y_train, params, w, y_true, Phi_grid,
                   y_pred, np_global, saved>>

\* line 125: the solve succeeds.
Fit ==
    /\ pc = "fit"
    /\ LET wv == fit_ridge_closed_form(Phi_train[1], y_train[1], req.lam)
       IN  /\ w' = Some(wv)
           /\ IF wv.shape = ShapeError
              THEN Respond(Error500("ValueError"))
              ELSE pc' = "grid" /\ UNCHANGED response
    /\ calls' = Append(calls, "fit_ridge_closed_form")
    /\ UNCHANGED <<req, layer_sizes, rng, y_train, params, Phi_train, y_true,
                   Phi_grid, y_pred, np_global, saved>>

\* line 74: np.linalg.solve raises LinAlgError on a singular matrix, which
\* lam > 0 excludes; whether the matrix is singular when lam = 0 depends on
\* the feature values, which are not modelled.
FitSingular ==
    /\ pc = "fit"
    /\ req.lam = 0
    /\ Respond(Error500("LinAlgError"))
    /\ calls' = Append(calls, "fit_ridge_closed_form")
    /\ UNCHANGED <<req, locals, np_global, saved>>

\* lines 127-128
Grid ==
    /\ pc = "grid"
    /\ y_true' = Some(apply_target(req.target, make_grid(N_GRID)))
    /\ calls' = calls \o <<"make_grid", "f">>
    /\ pc' = "phi_grid"
    /\ UNCHANGED <<req, layer_sizes, rng, y_train, params, Phi_train, w,
                   Phi_grid, y_pred, response, np_global, saved>>

\* line 129, with the parameters drawn again for the grid pass.
PhiGridRedraw ==
    /\ pc = "phi_grid"
    /\ LET r == init_random_params(layer_sizes[1], req.activation, rng[1])
           Phi == forward_features(make_grid(N_GRID), r.params, req.activation)
       IN  /\ rng' = Some(r.rng)
           /\ Phi_grid' = Some(Phi)
           /\ IF Phi.shape = ShapeError
              THEN Respond(Error500("ValueError"))
              ELSE pc' = "predict" /\ UNCHANGED response
    /\ calls' = calls \o <<"init_random_params">> \o DrawNames(Len(layer_sizes[1]))
                      \o <<"forward_features">>
    /\ UNCHANGED <<req, layer_sizes, y_train, params, Phi_train, w, y_true,
                   y_pred, np_global, saved>>

\* line 129
PhiGrid ==
    /\ pc = "phi_grid"
    /\ LET Phi == forward_features(make_grid(N_GRID), params[1], req.activation)
       IN  /\ Phi_grid' = Some(Phi)
           /\ IF Phi.shape = ShapeError
              THEN Respond(Error500("ValueError"))
              ELSE pc' = "predict" /\ UNCHANGED response
    /\ calls' = Append(calls, "forward_features")
    /\ UNCHANGED <<req, layer_sizes, rng, y_train, params, Phi_train, w, y_true,
                   y_pred, np_global, saved>>

\* line 130
Predict ==
    /\ pc = "predict"
    /\ LET y == predict_with_weights(Phi_grid[1], w[1])
       IN  /\ y_pred' = Some(y)
           /\ IF y.shape = ShapeError
              THEN Respond(Error500("ValueError"))
              ELSE pc' = "result" /\ UNCHANGED response
    /\ calls' = Append(calls, "predict_with_weights")
    /\ UNCHANGED <<req, layer_sizes, rng, y_train, params, Phi_train, w, y_true,
                   Phi_grid, np_global, saved>>

\* lines 132-148
Result ==
    /\ pc = "result"
    /\ Respond(Ok200(
         [x |-> make_grid(N_GRID),
          y_true |-> y_true[1],
          y_pred |-> y_pred[1],
          mse |-> [y_true |-> y_true[1], y_pred |-> y_pred[1]],
          params |-> [target |-> TargetName(req.target),
                      activation |-> ActName(req.activation),
                      layers |-> layer_sizes[1],
                      depth |-> Len(layer_sizes[1]),
                      lambda |-> req.lam,
                      seed |-> req.seed,
                      noise |-> req.noise]]))
    /\ UNCHANGED <<req, locals, calls, np_global, saved>>

\* The handler's frame is dropped.
DropFrame ==
    /\ pc' = "idle"
    /\ req' = None
    /\ layer_sizes' = None /\ rng' = None /\ y_train' = None /\ params' = None
    /\ Phi_train' = None /\ w' = None /\ y_true' = None /\ Phi_grid' = None
    /\ y_pred' = None
    /\ response' = None
    /\ calls' = <<>>
    /\ UNCHANGED np_global

\* The response is delivered and the call ends.
Return ==
    /\ pc = "responded"
    /\ DropFrame
    /\ UNCHANGED saved

\* The same, the caller keeping the request and its response for comparison
\* with a later one.
ReturnSaved ==
    /\ pc = "responded"
    /\ saved' = Some([req |-> req, response |-> response])
    /\ DropFrame

Handle ==
    \/ CheckKeys
    \/ ParseLayers
    \/ MakeRng
    \/ TrainLabels
    \/ InitParams
    \/ PhiTrain
    \/ Fit
    \/ FitSingular
    \/ Grid
    \/ PhiGrid
    \/ Predict
    \/ Result

Next ==
    \/ Receive(Requests)
    \/ Handle
    \/ Return

Spec == Init /\ [][Next]_vars

NextPair ==
    \/ Receive(PairRequests)
    \/ Handle
    \/ Return
    \/ ReturnSaved

SpecPair == Init /\ [][NextPair]_vars

----------------------------------------------------------------------------
\* Vocabulary of the properties.

Count(seq, name) == Cardinality({i \in 1..Len(seq) : seq[i] = name})
FirstIndex(seq, name) ==
    IF \E i \in 1..Len(seq) : seq[i] = name
    THEN CHOOSE i \in 1..Len(seq) :
           seq[i] = name /\ \A j \in 1..(i - 1) : seq[j] # name
    ELSE Len(seq) + 1
Serving == pc # "idle"
Responded == pc = "responded"
Succeeded == Responded /\ response.status = 200
\* The call was answered, and not by an exception of the solve.
Answered == Responded /\ response.error # "LinAlgError"
ValidKeys == req.target \in TARGETS /\ req.activation \in ACTIVATIONS
OnlyCommasAndSpaces(s) == \A i \in 1..Len(s) : s[i] \in {",", " "}
HasNonIntegerToken(s) ==
    \E i \in 1..Len(split(s)) :
        strip(split(s)[i]) # <<>> /\ ~IsIntLiteral(strip(split(s)[i]))
NoNumericWork ==
    /\ calls = <<>>
    /\ rng = None /\ y_train = None /\ params = None /\ Phi_train = None
    /\ w = None /\ y_true = None /\ Phi_grid = None /\ y_pred = None

----------------------------------------------------------------------------
\* C1: in a call, init_random_params runs at most once, and exactly once in a
\* successful call, drawing from the generator of the call's seed; the
\* training pass and the grid pass receive the very
\* parameters it returned; the generator is not drawn from after the first
\* feature pass, and the parameters stay what they were.
C1_ParamsDrawnOnceAndShared ==
    Serving =>
        /\ Count(calls, "init_random_params") <= 1
        /\ Succeeded => Count(calls, "init_random_params") = 1
        /\ params # None =>
             \A i \in 1..Len(params[1]) :
                /\ params[1][i].W.seed = req.seed
                /\ params[1][i].b.seed = req.seed
        /\ Phi_train # None => Phi_train[1].params = params[1]
        /\ Phi_grid # None =>
             /\ Phi_grid[1].params = params[1]
             /\ Phi_grid[1].params = Phi_train[1].params
        /\ \A i \in 1..Len(calls) :
             i > FirstIndex(calls, "forward_features") =>
               calls[i] \notin {"normal", "uniform", "init_random_params",
                                "default_rng"}
        /\ Succeeded => Count(calls, "forward_features") = 2

\* A successful call with several layers and training noise.
C1_Witness ==
    /\ Succeeded
    /\ Len(layer_sizes[1]) >= 2
    /\ req.noise > 0

\* C2: a call with noise = 0 that repeats the arguments of an earlier call
\* answers exactly what the earlier call answered, whatever was served in
\* between.
C2_Deterministic ==
    ( /\ Succeeded
      /\ saved # None
      /\ saved[1].req = req
      /\ req.noise = 0
      /\ saved[1].response.status = 200 )
    => response = saved[1].response

\* The second of two successful calls with the same arguments and no noise.
C2_Witness ==
    /\ Succeeded
    /\ saved # None
    /\ saved[1].req = req
    /\ req.noise = 0
    /\ saved[1].response.status = 200

\* C3: a layer string with a non-integer token at any position is answered
\* 400 with the layers-format message, and nothing numeric runs for it.
C3_NonIntegerTokenRejected ==
    (Answered /\ ValidKeys /\ HasNonIntegerToken(req.layers)) =>
        /\ response.status = 400
        /\ response.error = ErrLayers
        /\ NoNumericWork

\* C4: a layer string with more than 10 widths is answered 400 "Max 10
\* layers allowed", and nothing numeric runs for it.
C4_TooManyLayersRejected ==
    ( /\ Answered /\ ValidKeys
      /\ ~HasNonIntegerToken(req.layers)
      /\ Len(Parts(req.layers)) > 10 )
    => /\ response.status = 400
       /\ response.error = ErrMaxLayers
       /\ NoNumericWork

\* C5 as stated: an empty layer string (nothing but commas and white space)
\* is answered with a validation failure and nothing numeric runs for it.
C5_EmptyRejected ==
    (Answered /\ ValidKeys /\ OnlyCommasAndSpaces(req.layers)) =>
        /\ response.status = 400
        /\ NoNumericWork

\* C5 as amended: an empty layer string (nothing but commas and white space),
\* sent with a known target and activation, is not rejected: parse_layers resolves it to the single default width 64,
\* no 400 is answered for it and a successful answer echoes layers [64].
C5_EmptyDefaults ==
    (Serving /\ ValidKeys /\ OnlyCommasAndSpaces(req.layers)) =>
        /\ pc \notin {"keys", "parse"} => layer_sizes = <<<<64>>>>
        /\ Responded => response.status # 400
        /\ Succeeded =>
             /\ response.body[1].params.layers = <<64>>
             /\ Phi_grid[1].shape = <<500, 64>>

\* A successful call whose layer string is made of commas and spaces.
C5_Witness ==
    /\ Succeeded
    /\ OnlyCommasAndSpaces(req.layers)
    /\ Len(req.layers) >= 2

\* C6: when the target or the activation is unknown or the layer string is
\* rejected, the call is answered 400 and, all along it, no generator is
\* built, no target is evaluated, no parameter is drawn and nothing is
\* fitted; every 400 answer is given before any numeric work.
C6_ValidationFirst ==
    /\ ( /\ Serving
         /\ \/ req.target \notin TARGETS
            \/ req.activation \notin ACTIVATIONS
            \/ (pc \notin {"keys", "parse"} /\ layer_sizes = None) )
       => /\ NoNumericWork
          /\ pc \in {"keys", "parse", "responded"}
          /\ Responded => response.status = 400
    /\ (Responded /\ response.status = 400) => NoNumericWork
    /\ pc \in {"keys", "parse"} => NoNumericWork

\* A call with known keys answered 400 for its layer string.
C6_Witness ==
    /\ Responded
    /\ ValidKeys
    /\ response.status = 400
    /\ response.error = ErrLayers

\* C7: every accepted list of widths is non-empty with each width in
\* 1..2048; the tokens 0 and -3 resolve to 1, the token 2049 to 2048; no
\* feature matrix has zero columns.
C7_WidthsClamped ==
    (Serving /\ layer_sizes # None) =>
        /\ Len(layer_sizes[1]) >= 1
        /\ \A i \in 1..Len(layer_sizes[1]) :
             layer_sizes[1][i] >= 1 /\ layer_sizes[1][i] <= 2048
        /\ req.layers = <<"0">> => layer_sizes[1] = <<1>>
        /\ req.layers = <<"-", "3">> => layer_sizes[1] = <<1>>
        /\ req.layers = <<"2", "0", "4", "9">> => layer_sizes[1] = <<2048>>
        /\ req.layers = <<" ", "6", "4">> => layer_sizes[1] = <<64>>
        /\ Phi_train # None => Phi_train[1].shape[2] >= 1
        /\ Phi_grid # None => Phi_grid[1].shape[2] >= 1

\* A successful call whose tokens were clamped from below and from above.
C7_Witness ==
    /\ Succeeded
    /\ req.layers = <<"-", "3", ",", "2", "0", "4", "9">>
    /\ layer_sizes[1] = <<1, 2048>>

\* C8 as stated: the answer to an unknown target and the answer to an
\* unknown activation differ, so the caller can tell them apart.
C8_DistinctFailures ==
    ( /\ Responded
      /\ saved # None
      /\ saved[1].req.target \notin TARGETS
      /\ saved[1].req.activation \in ACTIVATIONS
      /\ req.target \in TARGETS
      /\ req.activation \notin ACTIVATIONS )
    => response # saved[1].response

\* C8 as amended: an unknown target and an unknown activation are answered
\* with one and the same failure, 400 "Invalid target or activation"; the
\* answer does not tell which identifier was rejected.
C8_SameFailure ==
    /\ (Responded /\ ~ValidKeys) =>
         /\ response.status = 400
         /\ response.error = "Invalid target or activation"
    /\ ( /\ Responded
         /\ saved # None
         /\ saved[1].req.target \notin TARGETS
         /\ saved[1].req.activation \in ACTIVATIONS
         /\ req.target \in TARGETS
         /\ req.activation \notin ACTIVATIONS )
       => response = saved[1].response

\* The answer to an unknown activation, after an answer to an unknown target.
C8_Witness ==
    /\ Responded
    /\ saved # None
    /\ saved[1].req.target \notin TARGETS
    /\ saved[1].req.activation \in ACTIVATIONS
    /\ req.target \in TARGETS
    /\ req.activation \notin ACTIVATIONS

\* C9 as stated: with one width, the weights are normal with scale 2.0
\* (scale squared 4) and the biases uniform over [-pi, pi], whatever the
\* activation.
C9_FixedConstants ==
    (Serving /\ params # None /\ Len(layer_sizes[1]) = 1) =>
        /\ params[1][1].W.dist = "normal"
        /\ params[1][1].W.scaleSq[1] = 4 * params[1][1].W.scaleSq[2]
        /\ params[1][1].b.dist = "uniform"
        /\ params[1][1].b.low = 0 - 1 /\ params[1][1].b.high = 1
        /\ params[1][1].b.unit = "pi"

\* C9 as amended: with one width W, the 1 x W weights are normal with mean 0
\* and scale he_scale(1, activation), that is sqrt(2) for relu and 1 for tanh
\* and sigmoid, and the W biases are uniform over [-1, 1]; the scale depends
\* on the activation.
C9_HeScaleConstants ==
    (Serving /\ params # None /\ Len(layer_sizes[1]) = 1) =>
        /\ Len(params[1]) = 1
        /\ params[1][1].W.dist = "normal"
        /\ params[1][1].W.shape = <<1, layer_sizes[1][1]>>
        /\ params[1][1].W.scaleSq =
             IF req.activation = "relu" THEN <<2, 1>> ELSE <<1, 1>>
        /\ params[1][1].b.dist = "uniform"
        /\ params[1][1].b.shape = <<layer_sizes[1][1]>>
        /\ params[1][1].b.low = 0 - 1 /\ params[1][1].b.high = 1
        /\ params[1][1].b.unit = "one"

\* The parameters of a single relu layer have been drawn.
C9_Witness ==
    /\ Serving
    /\ params # None
    /\ Len(layer_sizes[1]) = 1
    /\ req.activation = "relu"

\* C10: for accepted widths w1..wk no shape mismatch is ever raised; layer i
\* has weights of shape w(i-1) x wi (w0 = 1) and wi biases; the training
\* features are 512 x wk, the grid features 500 x wk, the fitted weights
\* have wk + 1 entries, which is the number of columns of the predictor's
\* augmented matrix, and x, y_true and y_pred have 500 entries.
C10_Shapes ==
    (Serving /\ layer_sizes # None /\ Len(layer_sizes[1]) <= 10) =>
      LET ls == layer_sizes[1]
          k == Len(ls)
      IN  /\ Responded => response.error # "ValueError"
          /\ params # None =>
               /\ Len(params[1]) = k
               /\ \A i \in 1..k :
                    /\ params[1][i].W.shape =
                         <<IF i = 1 THEN 1 ELSE ls[i - 1], ls[i]>>
                    /\ params[1][i].b.shape = <<ls[i]>>
          /\ y_train # None => y_train[1].shape = <<512>>
          /\ Phi_train # None => Phi_train[1].shape = <<512, ls[k]>>
          /\ w # None => w[1].shape = <<ls[k] + 1>>
          /\ Phi_grid # None =>
               /\ Phi_grid[1].shape = <<500, ls[k]>>
               /\ augment(Phi_grid[1].shape)[2] = w[1].shape[1]
          /\ y_pred # None => y_pred[1].shape = <<500>>
          /\ Succeeded =>
               /\ response.body[1].x.shape = <<500>>
               /\ response.body[1].y_true.shape = <<500>>
               /\ response.body[1].y_pred.shape = <<500>>

\* A successful call with two layers of different widths.
C10_Witness ==
    /\ Succeeded
    /\ Len(layer_sizes[1]) >= 2
    /\ layer_sizes[1][1] # layer_sizes[1][2]

====
